---- MODULE Spec2Model ----
(***************************************************************************)
(* Payment service of the ecommerce application: the orchestrator          *)
(* (PaymentService), the record store (PaymentRepository), the simulated   *)
(* gateway (PaymentProcessor) and the event publisher (EventPublisher).    *)
(* Every request is a task; a task advances one awaited call at a time, so *)
(* tasks interleave exactly at the await points of the source.             *)
(* The category store of the catalog service (CategoryService) is modelled *)
(* beside it, with its own specification.                                  *)
(***************************************************************************)
EXTENDS Integers, Naturals, Sequences, FiniteSets, TLC

\* ------------------------------------------------------------------ bounds
MaxTasks == 2       \* requests in flight at the same time
MaxRequests == 3    \* requests started over a whole run
MaxPayments == 2    \* payment records created over a whole run
MaxAmount == 2      \* largest amount (minor units) of a request
MaxOrders == 1      \* distinct order ids
MaxFaults == 1      \* store calls that raise over a whole run
MaxCategories == 3  \* categories created over a whole run

Tasks == 1..MaxTasks
Amounts == 1..MaxAmount
Orders == 1..MaxOrders

\* ------------------------------------------------------- models/payment.py
PENDING == "pending"
PROCESSING == "processing"
AUTHORIZED == "authorized"
CAPTURED == "captured"
FAILED == "failed"
REFUNDED == "refunded"
PARTIALLY_REFUNDED == "partially_refunded"

PaymentStatus ==
  {PENDING, PROCESSING, AUTHORIZED, CAPTURED, FAILED, REFUNDED, PARTIALLY_REFUNDED}

\* None of an optional identifier or timestamp, None of an optional string
NoId == 0
NoText == "none"
\* str(e) of a fault raised by the store (a failed execute, commit or select)
StoreFault == "store_fault"
\* str(e) of a fault raised by producer.send
SendFault == "send_fault"

\* --------------------------------------------------------------- the state
VARIABLES
  payments,   \* table payments: sequence of rows, the row's index is its id
  refunds,    \* table refunds: sequence of rows, append-only in the code
  events,     \* every producer.send attempted, in the order of the attempts
  clock,      \* datetime.utcnow() as read by update_payment_success
  requests,   \* number of requests started
  faults,     \* number of store calls that raised
  serial,     \* TRUE when the callers issue one request at a time
  tasks,      \* per request: position, locals, response, call counts
  categories,      \* catalog: collection db.categories, a document's index is its _id
  category_result  \* catalog: what the last CategoryService call returned or raised

vars == <<payments, refunds, events, clock, requests, faults, serial, tasks,
          categories, category_result>>

\* The locals of a request as it starts. A slot whose request is done keeps
\* the response until the next request takes the slot.
IdleTask ==
  [ op |-> "none", pc |-> "idle", request |-> 0,
    order_id |-> 0, amount |-> 0, transaction_id |-> NoId,
    payment_id |-> NoId, payment_status |-> NoText, payment_amount |-> 0,
    success |-> FALSE, result_transaction_id |-> NoId,
    result_payment_intent_id |-> NoId, refund_id |-> NoId,
    error_code |-> NoText, error_message |-> NoText,
    exc |-> NoText,
    response |-> [ kind |-> "none", success |-> FALSE, status |-> NoText,
                   transaction_id |-> NoId, payment_intent_id |-> NoId,
                   refund_id |-> NoId, amount |-> 0, error |-> <<>> ],
    authorize_calls |-> 0, capture_calls |-> 0, refund_calls |-> 0,
    store_faults |-> 0, send_faults |-> 0 ]

Start ==
  /\ payments = <<>>
  /\ refunds = <<>>
  /\ events = <<>>
  /\ clock = 1
  /\ requests = 0
  /\ faults = 0
  /\ tasks = [t \in Tasks |-> IdleTask]
  /\ categories = <<>>
  /\ category_result = NoText

\* requests of independent callers, handled concurrently
Init == Start /\ serial = FALSE

\* requests issued one after another, each after the response to the last
SeqInit == Start /\ serial = TRUE

\* ------------------------------------------------- database/repository.py
\* The outcomes of a store call that commits and then reads the row back:
\* it returns, it raises before the commit, or it raises after the commit.
StoreOutcomes ==
  IF faults < MaxFaults THEN {"ok", "fault_before_commit", "fault_after_commit"}
  ELSE {"ok"}

Counted(outcome) == faults' = IF outcome = "ok" THEN faults ELSE faults + 1

\* a store call that only reads, or only adds and commits
CallOutcomes == IF faults < MaxFaults THEN {"ok", "fault"} ELSE {"ok"}

create_payment(ps, order_id, amount) ==
  Append(ps, [ id |-> Len(ps) + 1, order_id |-> order_id, amount |-> amount,
               status |-> PENDING, transaction_id |-> NoId,
               payment_intent_id |-> NoId, provider_response |-> NoText,
               error_message |-> NoText, authorized_at |-> NoId,
               captured_at |-> NoId ])

\* C22 mutant: a status update that writes nothing
update_status_unwritten(ps, payment_id, status) == ps

\* UPDATE ... WHERE id = payment_id: no row matched is no error
update_status(ps, payment_id, status) ==
  [i \in DOMAIN ps |->
     IF ps[i].id = payment_id THEN [ps[i] EXCEPT !.status = status] ELSE ps[i]]

\* C7 mutant: the success write without the intent id
update_payment_success_no_intent(ps, payment_id, transaction_id, payment_intent_id, now) ==
  [i \in DOMAIN ps |->
     IF ps[i].id = payment_id
     THEN [ps[i] EXCEPT !.status = CAPTURED,
                        !.transaction_id = transaction_id,
                        !.provider_response = "success",
                        !.authorized_at = now,
                        !.captured_at = now]
     ELSE ps[i]]

update_payment_success(ps, payment_id, transaction_id, payment_intent_id, now) ==
  [i \in DOMAIN ps |->
     IF ps[i].id = payment_id
     THEN [ps[i] EXCEPT !.status = CAPTURED,
                        !.transaction_id = transaction_id,
                        !.payment_intent_id = payment_intent_id,
                        !.provider_response = "success",
                        !.authorized_at = now,
                        !.captured_at = now]
     ELSE ps[i]]

\* C17 mutant: a failure write that also clears the gateway identifiers
update_payment_failure_clears_ids(ps, payment_id, error_message, provider_response) ==
  [i \in DOMAIN ps |->
     IF ps[i].id = payment_id
     THEN [ps[i] EXCEPT !.status = FAILED,
                        !.error_message = error_message,
                        !.provider_response = provider_response,
                        !.transaction_id = NoId,
                        !.payment_intent_id = NoId]
     ELSE ps[i]]

\* C26 mutant: a failure write that leaves the status as it was
update_payment_failure_keeps_status(ps, payment_id, error_message, provider_response) ==
  [i \in DOMAIN ps |->
     IF ps[i].id = payment_id
     THEN [ps[i] EXCEPT !.error_message = error_message,
                        !.provider_response = provider_response]
     ELSE ps[i]]

\* C8 mutant: the failure write with a fixed message in place of the given one
update_payment_failure_generic(ps, payment_id, error_message, provider_response) ==
  [i \in DOMAIN ps |->
     IF ps[i].id = payment_id
     THEN [ps[i] EXCEPT !.status = FAILED,
                        !.error_message = "Payment failed",
                        !.provider_response = provider_response]
     ELSE ps[i]]

update_payment_failure(ps, payment_id, error_message, provider_response) ==
  [i \in DOMAIN ps |->
     IF ps[i].id = payment_id
     THEN [ps[i] EXCEPT !.status = FAILED,
                        !.error_message = error_message,
                        !.provider_response = provider_response]
     ELSE ps[i]]

\* C23 mutant: the refund row inserted twice
add_refund_record_twice(rs, payment_id, refund_id, amount) ==
  Append(Append(rs, [ id |-> Len(rs) + 1, payment_id |-> payment_id,
                      refund_id |-> refund_id, amount |-> amount ]),
         [ id |-> Len(rs) + 2, payment_id |-> payment_id,
           refund_id |-> refund_id, amount |-> amount ])

\* add_refund_record, lines 113-133: INSERT of one refund row, then commit
add_refund_record(rs, payment_id, refund_id, amount) ==
  Append(rs, [ id |-> Len(rs) + 1, payment_id |-> payment_id,
               refund_id |-> refund_id, amount |-> amount ])

\* SELECT ... WHERE id = :payment_id: the ids of the rows that match
get_by_id(ps, payment_id) == {i \in DOMAIN ps : ps[i].id = payment_id}

\* SELECT ... WHERE order_id = :order_id: the ids of the rows that match
\* (order_id is indexed, not unique)
get_by_order_id(ps, order_id) == {i \in DOMAIN ps : ps[i].order_id = order_id}

\* C20 mutant: Result.scalar_one(), which raises when no row matches
scalar_one(ps, found) ==
  IF Cardinality(found) = 1
  THEN [ kind |-> "Payment", payment |-> ps[CHOOSE i \in found : TRUE] ]
  ELSE [ kind |-> "raised", success |-> FALSE, status |-> NoText,
         transaction_id |-> NoId, payment_intent_id |-> NoId,
         refund_id |-> NoId, amount |-> 0, error |-> <<"NoResultFound">> ]

\* str(e) of sqlalchemy's MultipleResultsFound
MultipleResultsFound == "Multiple rows were found when one or none was required"

\* Result.scalar_one_or_none() followed by _to_domain: None for no row, the
\* payment for one row, MultipleResultsFound raised for more than one
scalar_one_or_none(ps, found) ==
  IF found = {} THEN [ kind |-> "None" ]
  ELSE IF Cardinality(found) = 1
  THEN [ kind |-> "Payment", payment |-> ps[CHOOSE i \in found : TRUE] ]
  ELSE [ kind |-> "raised", success |-> FALSE, status |-> NoText,
         transaction_id |-> NoId, payment_intent_id |-> NoId,
         refund_id |-> NoId, amount |-> 0, error |-> <<MultipleResultsFound>> ]

\* SELECT ... WHERE transaction_id = :transaction_id, scalar_one_or_none;
\* the ids of the rows that match (a NULL column matches nothing)
get_by_transaction_id(ps, transaction_id) ==
  {i \in DOMAIN ps : ps[i].transaction_id # NoId
                     /\ ps[i].transaction_id = transaction_id}

\* -------------------------------------------- services/payment_processor.py
\* uuid.uuid4(): the k-th identifier the gateway draws while it serves the
\* request numbered r; no two draws give the same identifier
uuid4(r, k) == (4 * r) + k

\* a transaction id that the gateway has issued to no payment
UnknownTransactionId == uuid4(0, 1)

AuthorizeErrorCodes == {"insufficient_funds", "card_declined", "expired_card"}

_get_error_message(error_code) ==
  CASE error_code = "insufficient_funds" -> "Insufficient funds in account"
    [] error_code = "card_declined" -> "Card was declined by issuer"
    [] error_code = "expired_card" -> "Card has expired"
    [] error_code = "invalid_card" -> "Invalid card number"
    [] error_code = "capture_failed" -> "Failed to capture payment"
    [] error_code = "refund_failed" -> "Failed to process refund"
    [] OTHER -> "Payment processing error"

\* ---------------------------------------------- services/event_publisher.py
\* C9 mutant: a publisher that sends every event twice
_publish_event_twice(evs, event_type, payment_id, data) ==
  Append(Append(evs, [ event_type |-> event_type, payment_id |-> payment_id,
                       data |-> data ]),
         [ event_type |-> event_type, payment_id |-> payment_id, data |-> data ])

\* _publish_event: the send is attempted; a send that raises is logged and
\* swallowed, never raised to the caller.
_publish_event(evs, event_type, payment_id, data) ==
  Append(evs, [ event_type |-> event_type, payment_id |-> payment_id,
                data |-> data ])

\* C14 mutant: a publisher that lets the exception of the send escape
publish_raises_send_fault(send_ok) == ~send_ok

\* _publish_event, lines 36-53: whether the call raises to its caller when
\* producer.send succeeded (send_ok) or raised; the except branch logs only
publish_raises(send_ok) == FALSE

\* --------------------------------------------- services/payment_service.py
Set(t, r) == tasks' = [tasks EXCEPT ![t] = r]

PaymentResponse(success, transaction_id, payment_intent_id, status, error) ==
  [ kind |-> "PaymentResponse", success |-> success, status |-> status,
    transaction_id |-> transaction_id, payment_intent_id |-> payment_intent_id,
    refund_id |-> NoId, amount |-> 0, error |-> error ]

RefundResponse(success, refund_id, amount, error) ==
  [ kind |-> "RefundResponse", success |-> success, status |-> NoText,
    transaction_id |-> NoId, payment_intent_id |-> NoId,
    refund_id |-> refund_id, amount |-> amount, error |-> error ]

\* the exception leaves the service method and reaches the route handler
Raised(e) ==
  [ kind |-> "raised", success |-> FALSE, status |-> NoText,
    transaction_id |-> NoId, payment_intent_id |-> NoId,
    refund_id |-> NoId, amount |-> 0, error |-> <<e>> ]

\* a request is given the lowest free task slot
Free(t) == tasks[t].pc \in {"idle", "done"}

FreeSlot(t) ==
  /\ Free(t)
  /\ \A u \in Tasks : u < t => ~Free(u)
  /\ serial => \A u \in Tasks : Free(u)

\* the order id of a process request: one that a stored payment has, or the
\* next unused one (order ids are opaque, so the unused ones are alike)
NewOrders ==
  {o \in Orders : \A q \in 1..(o - 1) : \E i \in DOMAIN payments : payments[i].order_id = q}

\* process_payment, lines 36-42: the record is created in PENDING. The call
\* is outside the try block, so a store fault reaches the caller.
ProcessCreate(t) ==
  /\ FreeSlot(t)
  /\ requests < MaxRequests
  /\ Len(payments) < MaxPayments
  /\ \E order_id \in NewOrders, amount \in Amounts, outcome \in StoreOutcomes :
       LET req == [IdleTask EXCEPT !.op = "process", !.request = requests + 1, !.order_id = order_id,
                                   !.amount = amount]
       IN  /\ Counted(outcome)
           /\ CASE outcome = "ok" ->
                  /\ payments' = create_payment(payments, order_id, amount)
                  /\ Set(t, [req EXCEPT !.pc = "mark_processing",
                                        !.payment_id = Len(payments) + 1,
                                        !.payment_status = PENDING,
                                        !.payment_amount = amount])
             [] outcome = "fault_before_commit" ->
                  /\ payments' = payments
                  /\ Set(t, [req EXCEPT !.pc = "done", !.exc = StoreFault,
                                        !.store_faults = 1,
                                        !.response = Raised(StoreFault)])
             [] outcome = "fault_after_commit" ->
                  /\ payments' = create_payment(payments, order_id, amount)
                  /\ Set(t, [req EXCEPT !.pc = "done", !.exc = StoreFault,
                                        !.store_faults = 1,
                                        !.response = Raised(StoreFault)])
  /\ requests' = requests + 1
  /\ UNCHANGED <<refunds, events, clock, serial, categories, category_result>>

\* process_payment, line 46: update_status(payment.id, PROCESSING)
ProcessMarkProcessing(t) ==
  /\ tasks[t].pc = "mark_processing"
  /\ \E outcome \in StoreOutcomes :
       /\ Counted(outcome)
       /\ CASE outcome = "ok" ->
              /\ payments' = update_status(payments, tasks[t].payment_id, PROCESSING)
              /\ Set(t, [tasks[t] EXCEPT !.pc = "authorize"])
         [] outcome = "fault_before_commit" ->
              /\ payments' = payments
              /\ Set(t, [tasks[t] EXCEPT !.pc = "handle_fault", !.exc = StoreFault,
                                         !.store_faults = @ + 1])
         [] outcome = "fault_after_commit" ->
              /\ payments' = update_status(payments, tasks[t].payment_id, PROCESSING)
              /\ Set(t, [tasks[t] EXCEPT !.pc = "handle_fault", !.exc = StoreFault,
                                         !.store_faults = @ + 1])
  /\ UNCHANGED <<refunds, events, clock, requests, serial, categories, category_result>>

\* C16 mutant: an authorization that is tried again after a first decline
GatewayAuthorizeRetried(t) ==
  /\ tasks[t].pc = "authorize"
  /\ \/ /\ Set(t, [tasks[t] EXCEPT !.pc = "capture",
                                   !.success = TRUE,
                                   !.result_payment_intent_id = uuid4(tasks[t].request, 0),
                                   !.result_transaction_id = uuid4(tasks[t].request, 1),
                                   !.authorize_calls = @ + 1])
     \/ /\ \E error_code \in AuthorizeErrorCodes :
             Set(t, [tasks[t] EXCEPT !.pc = IF tasks[t].authorize_calls = 0
                                            THEN "authorize" ELSE "record_failure",
                                     !.success = FALSE,
                                     !.error_code = error_code,
                                     !.error_message = _get_error_message(error_code),
                                     !.authorize_calls = @ + 1])
  /\ UNCHANGED <<payments, refunds, events, clock, requests, serial, categories, category_result, faults>>

\* C24 mutant: a combined operation that goes on to capture after a decline
GatewayAuthorizeThenCapture(t) ==
  /\ tasks[t].pc = "authorize"
  /\ \/ /\ Set(t, [tasks[t] EXCEPT !.pc = "capture",
                                   !.success = TRUE,
                                   !.result_payment_intent_id = uuid4(tasks[t].request, 0),
                                   !.result_transaction_id = uuid4(tasks[t].request, 1),
                                   !.authorize_calls = @ + 1])
     \/ /\ \E error_code \in AuthorizeErrorCodes :
             Set(t, [tasks[t] EXCEPT !.pc = "capture",
                                     !.success = FALSE,
                                     !.error_code = error_code,
                                     !.error_message = _get_error_message(error_code),
                                     !.authorize_calls = @ + 1])
  /\ UNCHANGED <<payments, refunds, events, clock, requests, serial, categories, category_result, faults>>

\* PaymentProcessor.authorize_payment, called first by its process_payment
GatewayAuthorize(t) ==
  /\ tasks[t].pc = "authorize"
  /\ \/ /\ Set(t, [tasks[t] EXCEPT !.pc = "capture",
                                   !.success = TRUE,
                                   !.result_payment_intent_id = uuid4(tasks[t].request, 0),
                                   !.result_transaction_id = uuid4(tasks[t].request, 1),
                                   !.authorize_calls = @ + 1])
     \/ /\ \E error_code \in AuthorizeErrorCodes :
             Set(t, [tasks[t] EXCEPT !.pc = "record_failure",
                                     !.success = FALSE,
                                     !.error_code = error_code,
                                     !.error_message = _get_error_message(error_code),
                                     !.authorize_calls = @ + 1])
  /\ UNCHANGED <<payments, refunds, events, clock, requests, serial, categories, category_result, faults>>

\* PaymentProcessor.capture_payment, reached only when authorize succeeded;
\* its result is the result of PaymentProcessor.process_payment
GatewayCapture(t) ==
  /\ tasks[t].pc = "capture"
  /\ \/ /\ Set(t, [tasks[t] EXCEPT !.pc = "record_success",
                                   !.success = TRUE,
                                   !.result_transaction_id = uuid4(tasks[t].request, 2),
                                   !.capture_calls = @ + 1])
     \/ /\ Set(t, [tasks[t] EXCEPT !.pc = "record_failure",
                                   !.success = FALSE,
                                   !.result_transaction_id = NoId,
                                   !.result_payment_intent_id = NoId,
                                   !.error_code = "capture_failed",
                                   !.error_message = "Failed to capture payment",
                                   !.capture_calls = @ + 1])
  /\ UNCHANGED <<payments, refunds, events, clock, requests, serial, categories, category_result, faults>>

\* process_payment, lines 55-62: update_payment_success
ProcessRecordSuccess(t) ==
  /\ tasks[t].pc = "record_success"
  /\ LET written == update_payment_success(payments, tasks[t].payment_id,
                       tasks[t].result_transaction_id,
                       tasks[t].result_payment_intent_id, clock)
     IN  \E outcome \in StoreOutcomes :
           /\ Counted(outcome)
           /\ CASE outcome = "ok" ->
                  /\ payments' = written
                  /\ clock' = clock + 1
                  /\ Set(t, [tasks[t] EXCEPT !.pc = "publish_successful",
                                             !.payment_status = CAPTURED])
             [] outcome = "fault_before_commit" ->
                  /\ payments' = payments
                  /\ clock' = clock + 1
                  /\ Set(t, [tasks[t] EXCEPT !.pc = "handle_fault",
                                             !.exc = StoreFault,
                                             !.store_faults = @ + 1])
             [] outcome = "fault_after_commit" ->
                  /\ payments' = written
                  /\ clock' = clock + 1
                  /\ Set(t, [tasks[t] EXCEPT !.pc = "handle_fault",
                                             !.exc = StoreFault,
                                             !.store_faults = @ + 1])
  /\ UNCHANGED <<refunds, events, requests, serial, categories, category_result>>

\* process_payment, lines 64-78: publish_payment_successful, then the response
ProcessPublishSuccessful(t) ==
  /\ tasks[t].pc = "publish_successful"
  /\ events' = _publish_event(events, "payment.successful", tasks[t].payment_id,
                 [ order_id |-> tasks[t].order_id,
                   amount |-> tasks[t].payment_amount,
                   transaction_id |-> tasks[t].result_transaction_id,
                   payment_intent_id |-> tasks[t].result_payment_intent_id ])
  /\ \E send_ok \in BOOLEAN :
       LET sent == [tasks[t] EXCEPT !.send_faults = IF send_ok THEN @ ELSE @ + 1]
       IN  IF publish_raises(send_ok)
           THEN Set(t, [sent EXCEPT !.pc = "handle_fault", !.exc = SendFault])
           ELSE Set(t, [sent EXCEPT !.pc = "done",
                  !.response = PaymentResponse(TRUE, tasks[t].result_transaction_id,
                                 tasks[t].result_payment_intent_id, CAPTURED, <<>>)])
  /\ UNCHANGED <<payments, refunds, clock, requests, serial, categories, category_result, faults>>

\* process_payment, lines 79-87: update_payment_failure with the gateway's message
ProcessRecordFailure(t) ==
  /\ tasks[t].pc = "record_failure"
  /\ LET written == update_payment_failure(payments, tasks[t].payment_id,
                       tasks[t].error_message, "failure")
     IN  \E outcome \in StoreOutcomes :
           /\ Counted(outcome)
           /\ CASE outcome = "ok" ->
                  /\ payments' = written
                  /\ Set(t, [tasks[t] EXCEPT !.pc = "publish_failed",
                                             !.payment_status = FAILED])
             [] outcome = "fault_before_commit" ->
                  /\ payments' = payments
                  /\ Set(t, [tasks[t] EXCEPT !.pc = "handle_fault",
                                             !.exc = StoreFault,
                                             !.store_faults = @ + 1])
             [] outcome = "fault_after_commit" ->
                  /\ payments' = written
                  /\ Set(t, [tasks[t] EXCEPT !.pc = "handle_fault",
                                             !.exc = StoreFault,
                                             !.store_faults = @ + 1])
  /\ UNCHANGED <<refunds, events, clock, requests, serial, categories, category_result>>

\* process_payment, lines 89-102: publish_payment_failed, then the response
ProcessPublishFailed(t) ==
  /\ tasks[t].pc = "publish_failed"
  /\ events' = _publish_event(events, "payment.failed", tasks[t].payment_id,
                 [ order_id |-> tasks[t].order_id,
                   amount |-> tasks[t].payment_amount,
                   error |-> tasks[t].error_message ])
  /\ \E send_ok \in BOOLEAN :
       LET sent == [tasks[t] EXCEPT !.send_faults = IF send_ok THEN @ ELSE @ + 1]
       IN  IF publish_raises(send_ok)
           THEN Set(t, [sent EXCEPT !.pc = "handle_fault", !.exc = SendFault])
           ELSE Set(t, [sent EXCEPT !.pc = "done",
                  !.response = PaymentResponse(FALSE, NoId, NoId, FAILED,
                                 <<tasks[t].error_message>>)])
  /\ UNCHANGED <<payments, refunds, clock, requests, serial, categories, category_result, faults>>

\* process_payment, lines 104-117: the catch-all branch writes FAILED with
\* str(e); a fault of that write reaches the caller.
ProcessHandleFault(t) ==
  /\ tasks[t].pc = "handle_fault"
  /\ LET written == update_payment_failure(payments, tasks[t].payment_id,
                       tasks[t].exc, NoText)
     IN  \E outcome \in StoreOutcomes :
           /\ Counted(outcome)
           /\ CASE outcome = "ok" ->
                  /\ payments' = written
                  /\ Set(t, [tasks[t] EXCEPT !.pc = "done",
                        !.response = PaymentResponse(FALSE, NoId, NoId, FAILED,
                                       <<"Payment processing error: ", tasks[t].exc>>)])
             [] outcome = "fault_before_commit" ->
                  /\ payments' = payments
                  /\ Set(t, [tasks[t] EXCEPT !.pc = "done",
                                             !.store_faults = @ + 1,
                                             !.response = Raised(StoreFault)])
             [] outcome = "fault_after_commit" ->
                  /\ payments' = written
                  /\ Set(t, [tasks[t] EXCEPT !.pc = "done",
                                             !.store_faults = @ + 1,
                                             !.response = Raised(StoreFault)])
  /\ UNCHANGED <<refunds, events, clock, requests, serial, categories, category_result>>

\* the transaction ids a refund request may carry: those of the stored
\* payments and one that no payment holds
RefundTransactionIds ==
  ({payments[i].transaction_id : i \in DOMAIN payments} \ {NoId}) \cup {UnknownTransactionId}

\* C6 mutant: the status test of line 139 without the exclusion of REFUNDED
is_refundable_after_refund(status) ==
  status \in {CAPTURED, PARTIALLY_REFUNDED, REFUNDED}

\* refund_payment, line 139
is_refundable(status) == status \in {CAPTURED, PARTIALLY_REFUNDED}

\* C5 mutant: the comparison of line 161 made strict
refund_new_status_strict(request_amount, payment_amount) ==
  IF request_amount > payment_amount THEN REFUNDED ELSE PARTIALLY_REFUNDED

\* refund_payment, lines 161-164
refund_new_status(request_amount, payment_amount) ==
  IF request_amount >= payment_amount THEN REFUNDED ELSE PARTIALLY_REFUNDED

\* refund_payment, lines 127-149: the lookup by transaction id (outside the
\* try block) and the two rejections that follow it without an await
RefundLookup(t) ==
  /\ FreeSlot(t)
  /\ requests < MaxRequests
  /\ \E transaction_id \in RefundTransactionIds, amount \in Amounts,
        outcome \in CallOutcomes :
       LET req == [IdleTask EXCEPT !.op = "refund", !.request = requests + 1, !.amount = amount,
                                   !.transaction_id = transaction_id]
           found == get_by_transaction_id(payments, transaction_id)
       IN  /\ Counted(outcome)
           /\ IF outcome = "fault" \/ Cardinality(found) > 1
              THEN Set(t, [req EXCEPT !.pc = "done", !.exc = StoreFault,
                                      !.store_faults = 1,
                                      !.response = Raised(StoreFault)])
              ELSE IF found = {}
              THEN Set(t, [req EXCEPT !.pc = "done",
                             !.response = RefundResponse(FALSE, NoId, amount,
                                            <<"Payment not found">>)])
              ELSE LET payment == payments[CHOOSE i \in found : TRUE]
                       read == [req EXCEPT !.payment_id = payment.id,
                                           !.payment_status = payment.status,
                                           !.payment_amount = payment.amount,
                                           !.order_id = payment.order_id]
                   IN  IF ~is_refundable(payment.status)
                       THEN Set(t, [read EXCEPT !.pc = "done",
                                      !.response = RefundResponse(FALSE, NoId, amount,
                                        <<"Payment in status ", payment.status,
                                          " cannot be refunded">>)])
                       ELSE Set(t, [read EXCEPT !.pc = "gateway_refund"])
  /\ requests' = requests + 1
  /\ UNCHANGED <<payments, refunds, events, clock, serial, categories, category_result>>

\* C12 mutant: a declined refund that also marks the payment FAILED
GatewayRefundMarksFailed(t) ==
  /\ tasks[t].pc = "gateway_refund"
  /\ \/ /\ Set(t, [tasks[t] EXCEPT !.pc = "refund_status",
                                   !.success = TRUE,
                                   !.refund_id = uuid4(tasks[t].request, 3),
                                   !.refund_calls = @ + 1])
        /\ payments' = payments
     \/ /\ Set(t, [tasks[t] EXCEPT !.pc = "done",
                     !.success = FALSE,
                     !.error_code = "refund_failed",
                     !.error_message = "Failed to process refund",
                     !.refund_calls = @ + 1,
                     !.response = RefundResponse(FALSE, NoId, tasks[t].amount,
                                    <<"Failed to process refund">>)])
        /\ payments' = update_payment_failure(payments, tasks[t].payment_id,
                         "Failed to process refund", NoText)
  /\ UNCHANGED <<refunds, events, clock, requests, serial, categories, category_result, faults>>

\* refund_payment, lines 151-157 and 190-196: PaymentProcessor.refund_payment
GatewayRefund(t) ==
  /\ tasks[t].pc = "gateway_refund"
  /\ \/ /\ Set(t, [tasks[t] EXCEPT !.pc = "refund_status",
                                   !.success = TRUE,
                                   !.refund_id = uuid4(tasks[t].request, 3),
                                   !.refund_calls = @ + 1])
     \/ /\ Set(t, [tasks[t] EXCEPT !.pc = "done",
                     !.success = FALSE,
                     !.error_code = "refund_failed",
                     !.error_message = "Failed to process refund",
                     !.refund_calls = @ + 1,
                     !.response = RefundResponse(FALSE, NoId, tasks[t].amount,
                                    <<"Failed to process refund">>)])
  /\ UNCHANGED <<payments, refunds, events, clock, requests, serial, categories, category_result, faults>>

\* refund_payment, lines 198-204: the catch-all branch of the refund
RefundFault(t) ==
  [tasks[t] EXCEPT !.pc = "done", !.exc = StoreFault, !.store_faults = @ + 1,
     !.response = RefundResponse(FALSE, NoId, tasks[t].amount,
                    <<"Refund processing error: ", StoreFault>>)]

\* refund_payment, lines 159-166: update_status with the status computed
\* from the requested amount and the amount of the payment as it was read
RefundUpdateStatus(t) ==
  /\ tasks[t].pc = "refund_status"
  /\ LET written == update_status(payments, tasks[t].payment_id,
                      refund_new_status(tasks[t].amount, tasks[t].payment_amount))
     IN  \E outcome \in StoreOutcomes :
           /\ Counted(outcome)
           /\ CASE outcome = "ok" ->
                  /\ payments' = written
                  /\ Set(t, [tasks[t] EXCEPT !.pc = "refund_record"])
             [] outcome = "fault_before_commit" ->
                  /\ payments' = payments
                  /\ Set(t, RefundFault(t))
             [] outcome = "fault_after_commit" ->
                  /\ payments' = written
                  /\ Set(t, RefundFault(t))
  /\ UNCHANGED <<refunds, events, clock, requests, serial, categories, category_result>>

\* refund_payment, lines 167-172: add_refund_record (add, commit)
RefundAddRecord(t) ==
  /\ tasks[t].pc = "refund_record"
  /\ \E outcome \in CallOutcomes :
       /\ Counted(outcome)
       /\ CASE outcome = "ok" ->
              /\ refunds' = add_refund_record(refunds, tasks[t].payment_id,
                              tasks[t].refund_id, tasks[t].amount)
              /\ Set(t, [tasks[t] EXCEPT !.pc = "publish_refunded"])
         [] outcome = "fault" ->
              /\ refunds' = refunds
              /\ Set(t, RefundFault(t))
  /\ UNCHANGED <<payments, events, clock, requests, serial, categories, category_result>>

\* refund_payment, lines 174-189: publish_payment_refunded, then the response
RefundPublish(t) ==
  /\ tasks[t].pc = "publish_refunded"
  /\ events' = _publish_event(events, "payment.refunded", tasks[t].payment_id,
                 [ order_id |-> tasks[t].order_id,
                   refund_id |-> tasks[t].refund_id,
                   amount |-> tasks[t].amount,
                   original_amount |-> tasks[t].payment_amount ])
  /\ \E send_ok \in BOOLEAN :
       LET sent == [tasks[t] EXCEPT !.send_faults = IF send_ok THEN @ ELSE @ + 1]
       IN  IF publish_raises(send_ok)
           THEN Set(t, [sent EXCEPT !.pc = "done", !.exc = SendFault,
                  !.response = RefundResponse(FALSE, NoId, tasks[t].amount,
                                 <<"Refund processing error: ", SendFault>>)])
           ELSE Set(t, [sent EXCEPT !.pc = "done",
                  !.response = RefundResponse(TRUE, tasks[t].refund_id,
                                 tasks[t].amount, <<>>)])
  /\ UNCHANGED <<payments, refunds, clock, requests, serial, categories, category_result, faults>>

\* the answer of a query: the read raises, or its rows go through
\* scalar_one_or_none; the service returns what the repository returns
Query(t, req, found, outcome) ==
  /\ Counted(outcome)
  /\ IF outcome = "fault"
     THEN Set(t, [req EXCEPT !.pc = "done", !.exc = StoreFault, !.store_faults = 1,
                             !.response = Raised(StoreFault)])
     ELSE LET answer == scalar_one_or_none(payments, found)
          IN  Set(t, [req EXCEPT !.pc = "done",
                        !.exc = IF answer.kind = "raised"
                                THEN MultipleResultsFound ELSE NoText,
                        !.response = answer])
  /\ requests' = requests + 1
  /\ UNCHANGED <<payments, refunds, events, clock, serial, categories, category_result>>

\* the payment ids a query may carry: the stored ones and one not stored
QueryPaymentIds == 1..(Len(payments) + 1)

\* the order ids a query may carry: those of the requests and one more
QueryOrderIds == 1..(MaxOrders + 1)

\* get_payment, lines 206-208
GetPayment(t) ==
  /\ FreeSlot(t)
  /\ requests < MaxRequests
  /\ \E payment_id \in QueryPaymentIds, outcome \in CallOutcomes :
       Query(t, [IdleTask EXCEPT !.op = "get_payment", !.request = requests + 1,
                                 !.payment_id = payment_id],
             get_by_id(payments, payment_id), outcome)

\* get_payment_by_order, lines 210-212
GetPaymentByOrder(t) ==
  /\ FreeSlot(t)
  /\ requests < MaxRequests
  /\ \E order_id \in QueryOrderIds, outcome \in CallOutcomes :
       Query(t, [IdleTask EXCEPT !.op = "get_payment_by_order",
                                 !.request = requests + 1, !.order_id = order_id],
             get_by_order_id(payments, order_id), outcome)

\* get_payment_by_transaction, lines 214-216
GetPaymentByTransaction(t) ==
  /\ FreeSlot(t)
  /\ requests < MaxRequests
  /\ \E transaction_id \in RefundTransactionIds, outcome \in CallOutcomes :
       Query(t, [IdleTask EXCEPT !.op = "get_payment_by_transaction",
                                 !.request = requests + 1,
                                 !.transaction_id = transaction_id],
             get_by_transaction_id(payments, transaction_id), outcome)

\* one awaited call of the process or refund request in slot t
Handle(t) ==
  \/ ProcessCreate(t)
  \/ ProcessMarkProcessing(t)
  \/ GatewayAuthorize(t)
  \/ GatewayCapture(t)
  \/ ProcessRecordSuccess(t)
  \/ ProcessPublishSuccessful(t)
  \/ ProcessRecordFailure(t)
  \/ ProcessPublishFailed(t)
  \/ ProcessHandleFault(t)
  \/ RefundLookup(t)
  \/ GatewayRefund(t)
  \/ RefundUpdateStatus(t)
  \/ RefundAddRecord(t)
  \/ RefundPublish(t)

\* one awaited call of the request in slot t, queries included
Step(t) ==
  \/ Handle(t)
  \/ GetPayment(t)
  \/ GetPaymentByOrder(t)
  \/ GetPaymentByTransaction(t)

\* Requests run concurrently: any request in flight takes the next step.
Next == \E t \in Tasks : Step(t)

Spec == Init /\ [][Next]_vars

\* Process and refund requests handled one at a time.
SeqNext == \E t \in Tasks : Handle(t)

SeqSpec == SeqInit /\ [][SeqNext]_vars

\* The steps a request takes by itself once the call it awaited has returned:
\* the event loop resumes every coroutine whose awaited store or publisher
\* call has completed. The gateway's answers are not among them: the service
\* awaits processor.process_payment and processor.refund_payment with no
\* timeout, so a request waits for as long as the gateway takes.
Continue(t) ==
  \/ ProcessMarkProcessing(t)
  \/ ProcessRecordSuccess(t)
  \/ ProcessPublishSuccessful(t)
  \/ ProcessRecordFailure(t)
  \/ ProcessPublishFailed(t)
  \/ ProcessHandleFault(t)
  \/ RefundUpdateStatus(t)
  \/ RefundAddRecord(t)
  \/ RefundPublish(t)

\* Process and refund requests handled one at a time, every request making
\* progress whenever the call it awaits has returned.
LiveSpec == SeqInit /\ [][SeqNext]_vars /\ \A t \in Tasks : WF_vars(Continue(t))

\* ------------------------------------------- api/routes/payment_routes.py
HTTP_200_OK == 200
HTTP_400_BAD_REQUEST == 400
HTTP_500_INTERNAL_SERVER_ERROR == 500

\* POST /payments/refund, lines 66-96: the status code of the answer, from
\* what service.refund_payment returned or raised. A response with
\* success=false becomes 400 whatever its error says; only an exception that
\* leaves the service becomes 500.
refund_payment_status_code(response) ==
  IF response.kind = "raised" THEN HTTP_500_INTERNAL_SERVER_ERROR
  ELSE IF ~response.success THEN HTTP_400_BAD_REQUEST
  ELSE HTTP_200_OK

\* -------------------- catalog-service: services/category_service.py
\* parent_id: Optional[str] = None
NoCategory == 0

\* a field of CategoryUpdate that the request did not set
\* (model_dump(exclude_unset=True) leaves it out of the $set)
Unset == -1
UnsetSlug == "unset"

Slugs == {"books", "music", "games"}

\* the _id values a request may carry: those stored and one that is not
CategoryIds == 1..(Len(categories) + 1)

\* collection.find_one({"slug": slug}) / find_one({"_id": id}): the matches
find_by_slug(cs, slug) == {k \in DOMAIN cs : cs[k].slug = slug}
find_by_category_id(cs, category_id) == {k \in DOMAIN cs : cs[k].id = category_id}

\* collection.insert_one: the new document gets a fresh _id
insert_one(cs, slug, parent_id) ==
  Append(cs, [ id |-> Len(cs) + 1, slug |-> slug, parent_id |-> parent_id ])

\* collection.update_one({"_id": category_id}, {"$set": update_dict})
update_one(cs, category_id, slug, parent_id) ==
  [k \in DOMAIN cs |->
     IF cs[k].id = category_id
     THEN [cs[k] EXCEPT !.slug = IF slug = UnsetSlug THEN @ ELSE slug,
                        !.parent_id = IF parent_id = Unset THEN @ ELSE parent_id]
     ELSE cs[k]]

\* create_category, lines 20-54: the slug must be new and a given parent
\* must exist
create_category ==
  /\ Len(categories) < MaxCategories
  /\ \E slug \in Slugs, parent_id \in CategoryIds \cup {NoCategory} :
       IF find_by_slug(categories, slug) # {}
       THEN /\ category_result' = "ValueError: slug already exists"
            /\ categories' = categories
       ELSE IF parent_id # NoCategory /\ find_by_category_id(categories, parent_id) = {}
       THEN /\ category_result' = "ValueError: parent does not exist"
            /\ categories' = categories
       ELSE /\ category_result' = "Category"
            /\ categories' = insert_one(categories, slug, parent_id)
  /\ UNCHANGED <<payments, refunds, events, clock, requests, faults, serial, tasks>>

\* update_category, lines 128-162: the category must exist; a given parent
\* must be another category and must exist; then the given fields are set
update_category ==
  /\ \E category_id \in CategoryIds, slug \in Slugs \cup {UnsetSlug},
        parent_id \in CategoryIds \cup {NoCategory, Unset} :
       IF find_by_category_id(categories, category_id) = {}
       THEN /\ category_result' = "None"
            /\ categories' = categories
       ELSE IF parent_id \notin {NoCategory, Unset} /\ parent_id = category_id
       THEN /\ category_result' = "ValueError: own parent"
            /\ categories' = categories
       ELSE IF /\ parent_id \notin {NoCategory, Unset}
               /\ find_by_category_id(categories, parent_id) = {}
       THEN /\ category_result' = "ValueError: parent does not exist"
            /\ categories' = categories
       ELSE /\ category_result' = "Category"
            /\ categories' = update_one(categories, category_id, slug, parent_id)
  /\ UNCHANGED <<payments, refunds, events, clock, requests, faults, serial, tasks>>

CategoryInit == Start /\ serial = TRUE

CategoryNext == create_category \/ update_category

\* the category store under any sequence of create_category and
\* update_category calls
CategorySpec == CategoryInit /\ [][CategoryNext]_vars

\* ------------------------------ the repository called directly by a client
\* A call of a transition operation of PaymentRepository: the UPDATE and its
\* commit, then the row read back with get_by_id and returned.
Transition(t, req, payment_id, written, outcome) ==
  /\ Counted(outcome)
  /\ CASE outcome = "ok" ->
          /\ payments' = written
          /\ Set(t, [req EXCEPT !.pc = "done",
                       !.response = scalar_one_or_none(written,
                                      get_by_id(written, payment_id))])
       [] outcome = "fault_before_commit" ->
          /\ payments' = payments
          /\ Set(t, [req EXCEPT !.pc = "done", !.exc = StoreFault,
                                !.store_faults = 1,
                                !.response = Raised(StoreFault)])
       [] outcome = "fault_after_commit" ->
          /\ payments' = written
          /\ Set(t, [req EXCEPT !.pc = "done", !.exc = StoreFault,
                                !.store_faults = 1,
                                !.response = Raised(StoreFault)])
  /\ requests' = requests + 1
  /\ UNCHANGED <<refunds, events, serial, categories, category_result>>

\* PaymentRepository.create_payment
StoreCreatePayment(t) ==
  /\ FreeSlot(t)
  /\ requests < MaxRequests
  /\ Len(payments) < MaxPayments
  /\ \E order_id \in NewOrders, amount \in Amounts, outcome \in StoreOutcomes :
       Transition(t, [IdleTask EXCEPT !.op = "create_payment",
                                      !.request = requests + 1,
                                      !.order_id = order_id, !.amount = amount,
                                      !.payment_id = Len(payments) + 1],
                  Len(payments) + 1,
                  create_payment(payments, order_id, amount), outcome)
  /\ clock' = clock

\* PaymentRepository.update_status
StoreUpdateStatus(t) ==
  /\ FreeSlot(t)
  /\ requests < MaxRequests
  /\ \E payment_id \in QueryPaymentIds, status \in PaymentStatus,
        outcome \in StoreOutcomes :
       Transition(t, [IdleTask EXCEPT !.op = "update_status",
                                      !.request = requests + 1,
                                      !.payment_id = payment_id,
                                      !.payment_status = status],
                  payment_id, update_status(payments, payment_id, status), outcome)
  /\ clock' = clock

\* PaymentRepository.update_payment_success
StoreUpdatePaymentSuccess(t) ==
  /\ FreeSlot(t)
  /\ requests < MaxRequests
  /\ \E payment_id \in QueryPaymentIds, outcome \in StoreOutcomes :
       Transition(t, [IdleTask EXCEPT !.op = "update_payment_success",
                                      !.request = requests + 1,
                                      !.payment_id = payment_id,
                                      !.result_transaction_id = uuid4(requests + 1, 2),
                                      !.result_payment_intent_id = uuid4(requests + 1, 0)],
                  payment_id,
                  update_payment_success(payments, payment_id, uuid4(requests + 1, 2),
                                         uuid4(requests + 1, 0), clock),
                  outcome)
  /\ clock' = clock + 1

\* PaymentRepository.update_payment_failure
StoreUpdatePaymentFailure(t) ==
  /\ FreeSlot(t)
  /\ requests < MaxRequests
  /\ \E payment_id \in QueryPaymentIds, outcome \in StoreOutcomes :
       Transition(t, [IdleTask EXCEPT !.op = "update_payment_failure",
                                      !.request = requests + 1,
                                      !.payment_id = payment_id,
                                      !.error_message = "Card was declined by issuer"],
                  payment_id,
                  update_payment_failure(payments, payment_id,
                                         "Card was declined by issuer", "failure"),
                  outcome)
  /\ clock' = clock

StoreCall(t) ==
  \/ StoreCreatePayment(t)
  \/ StoreUpdateStatus(t)
  \/ StoreUpdatePaymentSuccess(t)
  \/ StoreUpdatePaymentFailure(t)

StoreNext == \E t \in Tasks : StoreCall(t)

\* The repository's operations called one after another by a client of the
\* store, with any payment id.
StoreSpec == SeqInit /\ [][StoreNext]_vars

\* ------------------------------------------------------------ properties
RECURSIVE SumOfAmounts(_)
SumOfAmounts(rs) ==
  IF rs = <<>> THEN 0 ELSE Head(rs).amount + SumOfAmounts(Tail(rs))

\* the refund records attached to a payment, and the sum of their amounts
RefundsOf(payment_id) == SelectSeq(refunds, LAMBDA r : r.payment_id = payment_id)
RefundedAmount(payment_id) == SumOfAmounts(RefundsOf(payment_id))

\* the process events attempted for a payment
EventsOf(payment_id, event_type) ==
  SelectSeq(events, LAMBDA e : e.payment_id = payment_id /\ e.event_type = event_type)

RefundTasks == {t \in Tasks : tasks[t].op = "refund"}
ProcessTasks == {t \in Tasks : tasks[t].op = "process"}

\* C1: in every reachable state the amounts of the refund records attached
\* to a payment sum to at most the payment's original amount.
C1_RefundSumWithinAmount ==
  \A i \in DOMAIN payments : RefundedAmount(i) <= payments[i].amount

\* C2: a refund request for more than the payment's remaining refundable
\* amount never reaches the gateway: whenever the gateway's refund has been
\* invoked for a request (and the request's own record is not yet appended),
\* the requested amount is within the original amount minus the refunds
\* recorded so far.
C2_OverRefundRejectedBeforeGateway ==
  \A t \in RefundTasks :
    ( /\ tasks[t].refund_calls > 0
      /\ \/ tasks[t].pc = "refund_status"
         \/ tasks[t].pc = "done" /\ ~tasks[t].success )
    => tasks[t].amount
         <= tasks[t].payment_amount - RefundedAmount(tasks[t].payment_id)

\* C3: two concurrent refund requests on one CAPTURED payment (both read
\* CAPTURED), each for half the original amount and both successful, end
\* with the payment REFUNDED and two refund records that sum to the amount.
C3_ConcurrentHalvesEndRefunded ==
  \A t \in RefundTasks, u \in RefundTasks :
    ( /\ t # u
      /\ tasks[t].payment_id = tasks[u].payment_id
      /\ \A v \in {t, u} :
           /\ tasks[v].pc = "done"
           /\ tasks[v].response.success
           /\ tasks[v].payment_status = CAPTURED
           /\ 2 * tasks[v].amount = tasks[v].payment_amount )
    => /\ payments[tasks[t].payment_id].status = REFUNDED
       /\ Len(RefundsOf(tasks[t].payment_id)) = 2
       /\ RefundedAmount(tasks[t].payment_id) = tasks[t].payment_amount

\* C4: with refunds issued one after another, a successful refund leaves the
\* payment REFUNDED as soon as the refunded amounts add up to the original
\* amount and PARTIALLY_REFUNDED while they stay below it, and no refund is
\* accepted once they have added up to the original amount.
C4_RefundedWhenSumReachesAmount ==
  \A t \in RefundTasks :
    LET i == tasks[t].payment_id
    IN  /\ (tasks[t].pc = "done" /\ tasks[t].response.success)
           => /\ RefundedAmount(i) = payments[i].amount
                 => payments[i].status = REFUNDED
              /\ RefundedAmount(i) < payments[i].amount
                 => payments[i].status = PARTIALLY_REFUNDED
        /\ tasks[t].pc = "gateway_refund"
           => RefundedAmount(i) < payments[i].amount

\* the status the claims expect after a refund of the given amount
ExpectedRefundStatus(t) ==
  IF tasks[t].amount = tasks[t].payment_amount THEN REFUNDED ELSE PARTIALLY_REFUNDED

C6_InvokedOnlyWhenRefundable ==
  \A t \in RefundTasks :
    /\ (tasks[t].pc = "gateway_refund" \/ tasks[t].refund_calls > 0)
       => /\ tasks[t].payment_id \in DOMAIN payments
          /\ payments[tasks[t].payment_id].transaction_id = tasks[t].transaction_id
          /\ tasks[t].payment_status \in {CAPTURED, PARTIALLY_REFUNDED}
    /\ ( /\ tasks[t].pc = "done"
         /\ tasks[t].response.kind = "RefundResponse"
         /\ \/ tasks[t].payment_id = NoId
            \/ tasks[t].payment_status \in {PENDING, PROCESSING, FAILED, REFUNDED} )
       => /\ ~tasks[t].response.success
          /\ tasks[t].refund_calls = 0

C6_RejectionChangesNothing ==
  \A t \in Tasks :
    ( /\ tasks'[t] # tasks[t]
      /\ tasks'[t].op = "refund" /\ tasks'[t].pc = "done"
      /\ tasks'[t].refund_calls = 0 )
    => UNCHANGED <<payments, refunds, events>>

C6_RefundGuard == [] C6_InvokedOnlyWhenRefundable /\ [][C6_RejectionChangesNothing]_vars

C6_Witness ==
  \E t \in RefundTasks :
    /\ tasks[t].pc = "done"
    /\ tasks[t].payment_status = REFUNDED
    /\ ~tasks[t].response.success
    /\ tasks[t].response.error = <<"Payment in status ", REFUNDED, " cannot be refunded">>

\* C7: with requests handled one at a time, a process_payment whose gateway
\* call succeeded and whose store calls raised no fault ends with the record
\* CAPTURED, holding the gateway's non-empty transaction and intent ids and
\* authorized_at = captured_at, and returns success=true, CAPTURED and the
\* same ids; transaction ids and intent ids are unique across payments.
C7_GatewaySuccessCaptures ==
  /\ \A t \in ProcessTasks :
       ( /\ tasks[t].pc = "done"
         /\ tasks[t].capture_calls > 0 /\ tasks[t].success
         /\ tasks[t].store_faults = 0 )
       => LET p == payments[tasks[t].payment_id]
          IN  /\ p.status = CAPTURED
              /\ p.transaction_id = tasks[t].result_transaction_id
              /\ p.payment_intent_id = tasks[t].result_payment_intent_id
              /\ p.transaction_id # NoId /\ p.payment_intent_id # NoId
              /\ p.authorized_at # NoId /\ p.authorized_at = p.captured_at
              /\ tasks[t].response.kind = "PaymentResponse"
              /\ tasks[t].response.success
              /\ tasks[t].response.status = CAPTURED
              /\ tasks[t].response.transaction_id = p.transaction_id
              /\ tasks[t].response.payment_intent_id = p.payment_intent_id
  /\ \A i \in DOMAIN payments, j \in DOMAIN payments :
       i # j =>
         /\ payments[i].transaction_id # NoId
            => payments[i].transaction_id # payments[j].transaction_id
         /\ payments[i].payment_intent_id # NoId
            => payments[i].payment_intent_id # payments[j].payment_intent_id

C7_Witness ==
  /\ serial
  /\ Len(payments) = 2
  /\ \A i \in DOMAIN payments : payments[i].status = CAPTURED
  /\ \E t \in ProcessTasks :
       /\ tasks[t].pc = "done" /\ tasks[t].response.success
       /\ tasks[t].send_faults > 0

SuccessfulSends(payment_id) == Len(EventsOf(payment_id, "payment.successful"))
FailedSends(payment_id) == Len(EventsOf(payment_id, "payment.failed"))

AllowedChange(i, old, new) ==
  \/ old = PENDING /\ new = PROCESSING
  \/ old = PROCESSING /\ new \in {CAPTURED, FAILED}
  \/ /\ old = PENDING /\ new = FAILED
     /\ \E t \in ProcessTasks :
          tasks[t].pc = "handle_fault" /\ tasks[t].payment_id = i
  \/ old = CAPTURED /\ new \in {REFUNDED, PARTIALLY_REFUNDED}
  \/ old = PARTIALLY_REFUNDED /\ new \in {PARTIALLY_REFUNDED, REFUNDED}

\* C10: with requests handled one at a time, every change of a payment's
\* stored status is a change of the state machine; in particular a record
\* committed as CAPTURED is never changed to FAILED.
C10_StatusFollowsStateMachine ==
  [][ \A i \in DOMAIN payments :
        payments'[i].status # payments[i].status
        => AllowedChange(i, payments[i].status, payments'[i].status) ]_vars

\* C11: FAILED and REFUNDED are terminal: under any interleaving, a step never
\* changes the stored status of a payment that is FAILED or REFUNDED.
C11_TerminalStatesStay ==
  [][ \A i \in DOMAIN payments :
        payments[i].status \in {FAILED, REFUNDED}
        => payments'[i].status = payments[i].status ]_vars

\* C12: a refund_payment whose gateway refund is declined changes nothing:
\* no step of a refund request whose gateway call has not succeeded changes
\* payments, refund records or attempted events, and the step in which the
\* gateway declines answers success=false with the gateway's error message.
C12_DeclinedRefundChangesNothing ==
  [][ \A t \in Tasks :
        /\ ( /\ tasks'[t] # tasks[t]
             /\ tasks'[t].op = "refund" /\ ~tasks'[t].success )
           => UNCHANGED <<payments, refunds, events>>
        /\ ( /\ tasks[t].pc = "gateway_refund"
             /\ tasks'[t].pc = "done" /\ ~tasks'[t].success )
           => /\ tasks'[t].refund_calls = 1
              /\ tasks'[t].error_message = _get_error_message("refund_failed")
              /\ tasks'[t].response
                   = RefundResponse(FALSE, NoId, tasks[t].amount,
                                    <<tasks'[t].error_message>>) ]_vars

C12_Witness ==
  \E t \in RefundTasks :
    /\ tasks[t].pc = "done"
    /\ tasks[t].refund_calls = 1 /\ ~tasks[t].success
    /\ tasks[t].response.error = <<"Failed to process refund">>
    /\ payments[tasks[t].payment_id].status = CAPTURED
    /\ RefundsOf(tasks[t].payment_id) = <<>>

\* C13: with requests handled one at a time, a process_payment in which a
\* fault was raised after the PENDING record was created, and whose failure
\* write raised none, ends with the record FAILED carrying the fault's text
\* and answers with a response success=false, status FAILED, not an exception.
C13_FaultPathRecordsFailed ==
  \A t \in ProcessTasks :
    ( /\ tasks[t].pc = "done"
      /\ tasks[t].payment_id # NoId
      /\ tasks[t].exc # NoText
      /\ tasks[t].store_faults = 1 )
    => /\ payments[tasks[t].payment_id].status = FAILED
       /\ payments[tasks[t].payment_id].error_message = tasks[t].exc
       /\ tasks[t].response.kind = "PaymentResponse"
       /\ ~tasks[t].response.success
       /\ tasks[t].response.status = FAILED

C13_Witness ==
  \E t \in ProcessTasks :
    /\ serial
    /\ tasks[t].pc = "done"
    /\ tasks[t].capture_calls = 1 /\ tasks[t].success
    /\ tasks[t].store_faults = 1
    /\ payments[tasks[t].payment_id].status = FAILED
    /\ payments[tasks[t].payment_id].error_message = StoreFault
    /\ tasks[t].response.kind = "PaymentResponse"

\* the response of a request whose event send succeeds
ResponseAfterSend(t) ==
  CASE tasks[t].pc = "publish_successful" ->
         PaymentResponse(TRUE, tasks[t].result_transaction_id,
                         tasks[t].result_payment_intent_id, CAPTURED, <<>>)
    [] tasks[t].pc = "publish_failed" ->
         PaymentResponse(FALSE, NoId, NoId, FAILED, <<tasks[t].error_message>>)
    [] tasks[t].pc = "publish_refunded" ->
         RefundResponse(TRUE, tasks[t].refund_id, tasks[t].amount, <<>>)
    [] OTHER -> tasks[t].response

\* C14: a failing event send never affects the outcome: the step in which a
\* send raises leaves payments and refund records unchanged, raises nothing
\* to the caller and gives the response the request gives when the send
\* succeeds.
C14_SendFailureIsHarmless ==
  [][ \A t \in Tasks :
        tasks'[t].send_faults > tasks[t].send_faults
        => /\ UNCHANGED <<payments, refunds>>
           /\ tasks'[t].pc = "done"
           /\ tasks'[t].exc = tasks[t].exc
           /\ tasks'[t].response = ResponseAfterSend(t) ]_vars

C14_Witness ==
  \E t \in RefundTasks :
    /\ tasks[t].pc = "done"
    /\ tasks[t].send_faults > 0
    /\ tasks[t].response = RefundResponse(TRUE, tasks[t].refund_id, tasks[t].amount, <<>>)
    /\ Len(RefundsOf(tasks[t].payment_id)) = 1

\* C16: no gateway call is retried: a process_payment request invokes the
\* gateway's authorize at most once and capture at most once and never its
\* refund, and a refund_payment request invokes the gateway's refund at most
\* once and nothing else, whatever the outcome and the faults afterwards.
C16_NoGatewayCallRetried ==
  \A t \in Tasks :
    /\ tasks[t].authorize_calls <= 1
    /\ tasks[t].capture_calls <= tasks[t].authorize_calls
    /\ tasks[t].refund_calls <= 1
    /\ tasks[t].op = "process" => tasks[t].refund_calls = 0
    /\ tasks[t].op = "refund" => tasks[t].authorize_calls = 0

C16_Witness ==
  \E t \in RefundTasks, u \in ProcessTasks :
    /\ tasks[t].pc = "done"
    /\ tasks[t].refund_calls = 1 /\ tasks[t].success
    /\ tasks[t].store_faults = 1
    /\ tasks[u].pc = "done"
    /\ tasks[u].authorize_calls = 1 /\ tasks[u].capture_calls = 1
    /\ ~tasks[u].success

\* no two payment records share a transaction id or an intent id
C17_IdsUnique ==
  \A i \in DOMAIN payments, j \in DOMAIN payments :
    i # j =>
      /\ payments[i].transaction_id = payments[j].transaction_id
         => payments[i].transaction_id = NoId
      /\ payments[i].payment_intent_id = payments[j].payment_intent_id
         => payments[i].payment_intent_id = NoId

\* a step leaves a transaction id or an intent id that is set as it is
C17_IdsWriteOnce ==
  \A i \in DOMAIN payments :
    /\ payments[i].transaction_id # NoId
       => payments'[i].transaction_id = payments[i].transaction_id
    /\ payments[i].payment_intent_id # NoId
       => payments'[i].payment_intent_id = payments[i].payment_intent_id

\* C17: a payment's transaction id and intent id are write-once and unique:
\* once set, no later step (a failure write and a refund included) changes
\* or clears them, and in every reachable state no two payment records share
\* a transaction id or an intent id.
C17_IdsWriteOnceAndUnique == [] C17_IdsUnique /\ [][C17_IdsWriteOnce]_vars

C17_Witness ==
  \E i \in DOMAIN payments, j \in DOMAIN payments :
    /\ i # j
    /\ payments[i].status = FAILED /\ payments[i].transaction_id # NoId
    /\ payments[j].status \in {REFUNDED, PARTIALLY_REFUNDED}
    /\ payments[j].transaction_id # NoId /\ payments[j].payment_intent_id # NoId

\* C15: a request whose gateway call does not respond is treated as declined:
\* a process_payment waiting for the gateway eventually leaves the wait and
\* its payment leaves PROCESSING, and a refund_payment waiting for the
\* gateway eventually returns.
C15_GatewayWaitEnds ==
  \A t \in Tasks :
    /\ (tasks[t].pc \in {"authorize", "capture"})
         ~> ( /\ tasks[t].pc \notin {"authorize", "capture"}
              /\ tasks[t].payment_id \in DOMAIN payments
                 => payments[tasks[t].payment_id].status # PROCESSING )
    /\ (tasks[t].pc = "gateway_refund") ~> (tasks[t].pc = "done")

QueryOps == {"get_payment", "get_payment_by_order", "get_payment_by_transaction"}
QueryTasks == {t \in Tasks : tasks[t].op \in QueryOps}

\* C19: in every reachable store state, the one reached after two
\* process_payment requests with the same order id included, a
\* get_payment_by_order whose read raised no store fault returns a payment of
\* that order or not-found, never an error.
C19_OrderQueryNeverFails ==
  \A t \in QueryTasks :
    ( /\ tasks[t].op = "get_payment_by_order"
      /\ tasks[t].pc = "done"
      /\ tasks[t].store_faults = 0 )
    => \/ tasks[t].response.kind = "None"
       \/ /\ tasks[t].response.kind = "Payment"
          /\ tasks[t].response.payment.order_id = tasks[t].order_id

\* the rows that match the identifier of the query that slot t holds after
\* the step
QueryMatches(t) ==
  CASE tasks'[t].op = "get_payment" -> get_by_id(payments, tasks'[t].payment_id)
    [] tasks'[t].op = "get_payment_by_order" ->
         get_by_order_id(payments, tasks'[t].order_id)
    [] tasks'[t].op = "get_payment_by_transaction" ->
         get_by_transaction_id(payments, tasks'[t].transaction_id)

\* a query changes neither payments, refund records, attempted events nor
\* another request (its gateway call counts included)
QueryChangesNothing(t) ==
  /\ UNCHANGED <<payments, refunds, events, clock>>
  /\ \A u \in Tasks \ {t} : tasks'[u] = tasks[u]
  /\ tasks'[t].authorize_calls = 0
  /\ tasks'[t].capture_calls = 0
  /\ tasks'[t].refund_calls = 0

TransitionOps == {"update_status", "update_payment_success", "update_payment_failure"}

\* C18: update_status, update_payment_success and update_payment_failure
\* called with a payment id that is not in the store fail with a NotFound
\* error instead of returning.
C18_UnknownIdIsNotFound ==
  \A t \in Tasks :
    ( /\ tasks[t].op \in TransitionOps
      /\ tasks[t].pc = "done"
      /\ tasks[t].store_faults = 0
      /\ tasks[t].payment_id \notin DOMAIN payments )
    => /\ tasks[t].response.kind = "raised"
       /\ tasks[t].response.error = <<"NotFound">>

\* C21: POST /payments/refund answers 500 when a fault occurs while the
\* refund is handled (the store failing at the lookup, at the status update
\* or at the refund record) and 400 only when the refund is rejected for a
\* domain reason; a fault is never answered with 400.
C21_FaultAnswers500 ==
  \A t \in RefundTasks :
    tasks[t].pc = "done"
    => /\ tasks[t].store_faults > 0
          => refund_payment_status_code(tasks[t].response)
               = HTTP_500_INTERNAL_SERVER_ERROR
       /\ refund_payment_status_code(tasks[t].response) = HTTP_400_BAD_REQUEST
          => tasks[t].store_faults = 0

\* the event a step attempts to send, in a step that attempts one
AttemptedEvent == events'[Len(events')]

\* C22: process_payment performs its steps in a fixed order, under any
\* interleaving of requests: the record is created in PENDING, then moved to
\* PROCESSING, then the gateway is called, then the outcome is committed,
\* then the event is attempted. The gateway is called (authorize or capture)
\* only for a payment whose record is in PROCESSING; a record becomes
\* CAPTURED only after the request's capture succeeded; a payment.successful
\* event is attempted only for a payment already committed as CAPTURED with
\* the event's transaction id, and a payment.failed event only for a payment
\* already committed as FAILED.
C22_StepsInOrder ==
  [][ /\ \A t \in Tasks :
           ( \/ tasks'[t].authorize_calls > tasks[t].authorize_calls
             \/ tasks'[t].capture_calls > tasks[t].capture_calls )
           => /\ tasks[t].payment_id \in DOMAIN payments
              /\ payments[tasks[t].payment_id].status = PROCESSING
      /\ Len(payments') > Len(payments)
           => payments'[Len(payments')].status = PENDING
      /\ \A i \in DOMAIN payments :
           /\ (payments'[i].status = PROCESSING /\ payments[i].status # PROCESSING)
              => payments[i].status = PENDING
           /\ (payments'[i].status = CAPTURED /\ payments[i].status # CAPTURED)
              => \E t \in ProcessTasks :
                   /\ tasks[t].payment_id = i
                   /\ tasks[t].capture_calls = 1 /\ tasks[t].success
                   /\ payments[i].status = PROCESSING
      /\ Len(events') > Len(events)
           => /\ AttemptedEvent.event_type = "payment.successful"
                 => /\ payments[AttemptedEvent.payment_id].captured_at # NoId
                    /\ payments[AttemptedEvent.payment_id].transaction_id
                         = AttemptedEvent.data.transaction_id
              /\ AttemptedEvent.event_type = "payment.failed"
                 => payments[AttemptedEvent.payment_id].status = FAILED
    ]_vars

\* C22 witness: one payment went through the steps to its payment.successful
\* event and another to its payment.failed event
C22_Witness ==
  /\ \E k \in DOMAIN events : events[k].event_type = "payment.successful"
  /\ \E k \in DOMAIN events : events[k].event_type = "payment.failed"
  /\ \A t \in Tasks : tasks[t].pc = "done"

\* the refund records and the payment.refunded events that carry a refund id
RecordsWithRefundId(refund_id) ==
  {k \in DOMAIN refunds : refunds[k].refund_id = refund_id}
RefundedEventsWithRefundId(refund_id) ==
  {k \in DOMAIN events : /\ events[k].event_type = "payment.refunded"
                         /\ events[k].data.refund_id = refund_id}

\* every refund_payment that returned success=true has exactly one record,
\* with the gateway's refund id and the requested amount, and exactly one
\* payment.refunded event with the refund id, the amount and the original
\* amount of the payment
C23_OneRecordAndEventPerSuccess ==
  \A t \in RefundTasks :
    (tasks[t].pc = "done" /\ tasks[t].response.success)
    => /\ tasks[t].response.refund_id = tasks[t].refund_id
       /\ Cardinality(RecordsWithRefundId(tasks[t].refund_id)) = 1
       /\ \A k \in RecordsWithRefundId(tasks[t].refund_id) :
            /\ refunds[k].amount = tasks[t].amount
            /\ refunds[k].payment_id = tasks[t].payment_id
       /\ Cardinality(RefundedEventsWithRefundId(tasks[t].refund_id)) = 1
       /\ \A k \in RefundedEventsWithRefundId(tasks[t].refund_id) :
            /\ events[k].payment_id = tasks[t].payment_id
            /\ events[k].data.amount = tasks[t].amount
            /\ events[k].data.original_amount = payments[tasks[t].payment_id].amount

\* a step that changes the refund records appends one record of a request
\* whose gateway refund succeeded, and leaves the records it found as they are
C23_RecordOnlyAfterGatewaySuccess ==
  refunds' # refunds
  => /\ Len(refunds') = Len(refunds) + 1
     /\ \A k \in DOMAIN refunds : refunds'[k] = refunds[k]
     /\ \E t \in RefundTasks :
          /\ tasks[t].refund_calls = 1 /\ tasks[t].success
          /\ refunds'[Len(refunds')].refund_id = tasks[t].refund_id
          /\ refunds'[Len(refunds')].amount = tasks[t].amount
          /\ refunds'[Len(refunds')].payment_id = tasks[t].payment_id

\* C23: under any interleaving, a refund record is appended only after the
\* gateway refund of that request succeeded; every refund_payment that
\* returned success=true has appended exactly one record (the gateway's
\* refund id, the requested amount) and attempted exactly one
\* payment.refunded event carrying that refund id, the amount and the
\* original amount; a refund record is never modified or removed.
C23_RefundRecordsMatchGatewayRefunds ==
  [] C23_OneRecordAndEventPerSuccess /\ [][C23_RecordOnlyAfterGatewaySuccess]_vars

\* C23 witness: two refunds of one payment have returned success=true
C23_Witness ==
  \E t \in RefundTasks, u \in RefundTasks :
    /\ t # u
    /\ tasks[t].payment_id = tasks[u].payment_id
    /\ \A v \in {t, u} : tasks[v].pc = "done" /\ tasks[v].response.success
    /\ Len(refunds) = 2

\* a step in which the gateway's authorize (capture) returns to request t
AuthorizeReturns(t) == tasks'[t].authorize_calls > tasks[t].authorize_calls
CaptureReturns(t) == tasks'[t].capture_calls > tasks[t].capture_calls

\* C24: in the gateway's combined process operation, capture is invoked only
\* after authorize returned success, and with the intent id that authorize
\* issued; when authorize fails capture is not invoked and the result of the
\* operation is the authorize failure itself, with its error code and message.
C24_CaptureOnlyAfterAuthorize ==
  [][ \A t \in Tasks :
        /\ CaptureReturns(t)
           => /\ tasks[t].authorize_calls = 1 /\ tasks[t].success
              /\ tasks[t].result_payment_intent_id = uuid4(tasks[t].request, 0)
              /\ tasks'[t].success
                 => tasks'[t].result_payment_intent_id
                      = tasks[t].result_payment_intent_id
        /\ (AuthorizeReturns(t) /\ tasks'[t].success)
           => /\ tasks'[t].pc = "capture"
              /\ tasks'[t].result_payment_intent_id = uuid4(tasks[t].request, 0)
        /\ (AuthorizeReturns(t) /\ ~tasks'[t].success)
           => /\ tasks'[t].pc = "record_failure"
              /\ tasks'[t].capture_calls = 0
              /\ tasks'[t].error_code \in AuthorizeErrorCodes
              /\ tasks'[t].error_message = _get_error_message(tasks'[t].error_code)
        /\ (tasks[t].pc = "record_failure" /\ tasks[t].capture_calls = 0)
           => /\ ~CaptureReturns(t)
              /\ tasks[t].error_code \in AuthorizeErrorCodes
              /\ tasks[t].error_message = _get_error_message(tasks[t].error_code)
    ]_vars

\* C24 witness: capture has returned success after authorize did, and an
\* earlier request was declined by authorize without a capture
C24_Witness ==
  /\ \E t \in ProcessTasks :
       /\ tasks[t].pc = "record_success"
       /\ tasks[t].authorize_calls = 1 /\ tasks[t].capture_calls = 1
  /\ \E k \in DOMAIN events :
       /\ events[k].event_type = "payment.failed"
       /\ events[k].data.error
            \in {_get_error_message(c) : c \in AuthorizeErrorCodes}

\* C25 (as stated): a refund_payment that returns success=false, for whatever
\* reason (rejection, gateway failure, or a fault caught while the refund is
\* persisted), leaves the payment's stored status and its refund records as
\* they were before the call; the status never becomes REFUNDED or
\* PARTIALLY_REFUNDED without a refund record appended for that request.
C25_FailedRefundChangesNothing ==
  \A t \in RefundTasks :
    ( /\ tasks[t].pc = "done"
      /\ tasks[t].response.kind = "RefundResponse"
      /\ ~tasks[t].response.success
      /\ tasks[t].payment_id # NoId )
    => /\ payments[tasks[t].payment_id].status = tasks[t].payment_status
       /\ RecordsWithRefundId(tasks[t].refund_id) = {}

\* a step in which process_payment returns a PaymentResponse to its caller
ProcessReturns(t) ==
  /\ tasks[t].pc # "done" /\ tasks'[t].pc = "done"
  /\ tasks'[t].op = "process"
  /\ tasks'[t].response.kind = "PaymentResponse"

ProcessEndedFailed(t) ==
  /\ tasks[t].op = "process" /\ tasks[t].pc = "done"
  /\ tasks[t].payment_id \in DOMAIN payments
  /\ payments[tasks[t].payment_id].status = FAILED

\* C27: every payment that process_payment left FAILED, whether after a
\* decline of the gateway or through the catch-all branch, has had exactly
\* one payment.failed event attempted.
C27_FailedPaymentHasOneFailedEvent ==
  \A t \in Tasks :
    ProcessEndedFailed(t)
    => Len(EventsOf(tasks[t].payment_id, "payment.failed")) = 1

\* C28: under any interleaving the events of one payment are attempted in
\* the order of its lifecycle: a payment.refunded event is never attempted
\* before the payment.successful event of the same payment, also when the
\* refund runs concurrently with the process_payment that captured it.
C28_RefundedAfterSuccessful ==
  \A k \in DOMAIN events :
    events[k].event_type = "payment.refunded"
    => \E j \in 1..(k - 1) :
         /\ events[j].event_type = "payment.successful"
         /\ events[j].payment_id = events[k].payment_id

\* C29: no order is charged twice: for any order id at most one payment
\* record reaches CAPTURED, also when process_payment is invoked more than
\* once, one after another or concurrently, with the same order id.
C29_OneCapturePerOrder ==
  \A i \in DOMAIN payments, j \in DOMAIN payments :
    ( /\ payments[i].order_id = payments[j].order_id
      /\ payments[i].captured_at # NoId
      /\ payments[j].captured_at # NoId )
    => i = j

\* the parent of a category, and its ancestor n steps up the parent relation
parent_of(category_id) ==
  IF category_id \in DOMAIN categories
  THEN categories[category_id].parent_id ELSE NoCategory

RECURSIVE AncestorAt(_, _)
AncestorAt(category_id, n) ==
  IF n = 0 THEN category_id ELSE parent_of(AncestorAt(category_id, n - 1))

\* C30: after any sequence of create_category and update_category calls the
\* parent relation of the category store is acyclic: no category is its own
\* ancestor, at any distance.
C30_ParentRelationAcyclic ==
  \A c \in DOMAIN categories :
    \A n \in 1..Len(categories) : AncestorAt(c, n) # c
====
